---- MODULE Spec2Model ----
(***************************************************************************)
(* A model of rusths: the THS session of src/src/ths.rs (the call bridge,  *)
(* the buffer-doubling query loop, connect/disconnect and Drop), the       *)
(* callback registry of src/src/callback.rs, and the two OnceCell statics  *)
(* of ths.rs under concurrent threads.                                     *)
(*                                                                         *)
(* Three specifications share the variables: Spec (one thread using        *)
(* sessions), RegistrySpec (the callback table) and LoaderSpec (threads    *)
(* constructing sessions and making their first call).  Each leaves the    *)
(* variables of the other two as they start.                               *)
(*                                                                         *)
(* Conventions.                                                            *)
(*   - A Rust String is a Text: a sequence of fragments.  'contains' is    *)
(*     membership of the searched fragment; the Chinese literals of the    *)
(*     source are written as ASCII glosses in angle brackets, with the     *)
(*     source line of each literal named next to it.                       *)
(*   - usize and c_int keep a width, scaled down so that every value fits  *)
(*     the model checker's integers: c_int stays narrower than isize.      *)
(*   - The native module is opaque: each native call draws its return code *)
(*     and the bytes it leaves in the output buffer from NativeOutcomes.   *)
(***************************************************************************)
EXTENDS Integers, Sequences, FiniteSets, TLC

VARIABLES
    arch,                 \* std::env::consts::ARCH of the process
    LIBRARY,              \* static LIBRARY: OnceCell<Library>
    CALL_FN,              \* static CALL_FN: OnceCell<fn>; TRUE once resolved
    alive,                \* alive[s]: the THS object s exists (constructed, not dropped)
    login,                \* login[s]: THS.login
    ops,                  \* ops[s]: THS.ops
    pc,                   \* "idle" | "connect" | "query" | "returned" | "aborted"
    cur,                  \* the operation running, or the last one that ended
    args,                 \* cmd_query_data's parameters
    attempt,              \* loop counter of connect / cmd_query_data
    current_buffer_size,  \* cmd_query_data's local
    calls,                \* native invocations of the operation 'cur', in order
    sleeps,               \* thread::sleep durations of the operation 'cur', in ms
    lastRes,              \* what the most recent THS::call of 'cur' returned
    retried,              \* the native return codes cmd_query_data went on to retry
    ret,                  \* what the operation 'cur' returned
    prev,                 \* summary of the disconnect that ended right before 'cur'
    CALLBACKS,            \* callback.rs: static CALLBACKS, the Vec of closures
    issued,               \* issued[c]: the index register_callback returned for closure c
    wrappers,             \* the CallbackWrapper objects that exist
    undisturbed,          \* closures registered with no unregister_callback since
    direct,               \* unregister_callback was called other than by a wrapper's drop
    lastOp,               \* the registry operation that ended last
    prevOp,               \* the registry operation that ended before lastOp
    discipline,           \* the handles not yet unregistered, while unregistered last-first
    libraryCell,          \* LIBRARY seen by concurrent threads: the OnceCell's state
    callFnCell,           \* CALL_FN seen by concurrent threads: the OnceCell's state
    tpc,                  \* tpc[t]: where thread t is in THS::new / THS::call
    tver,                 \* tver[t]: the lib_ver of the construction thread t runs
    tlib,                 \* tlib[t]: the module thread t's session holds (0: none)
    loads,                \* the modules Library::new has loaded, in order
    resolves,             \* how many times lib.get(b"Call") has succeeded
    constructions,        \* how many constructions have been started
    connects,             \* native "connect" calls that succeeded with an empty err_info
    disconnects,          \* native "disconnect" calls issued
    lock,                 \* the thread holding CALLBACKS' Mutex (NoThread: unlocked)
    frames,               \* frames[t]: thread t's registry calls in progress, outermost first
    removed,              \* closures removed by an unregister_callback of the last index
    halted                \* the process has aborted

sessionVars == <<arch, LIBRARY, CALL_FN, alive, login, ops, pc, cur, args, attempt,
                 current_buffer_size, calls, sleeps, lastRes, retried, ret, prev>>

registryVars == <<CALLBACKS, issued, wrappers, undisturbed, direct, lastOp, prevOp,
                  discipline>>

loaderVars == <<libraryCell, callFnCell, tpc, tver, tlib, loads, resolves, constructions>>

countVars == <<connects, disconnects>>

lockVars == <<lock, frames, removed, halted>>

vars == <<sessionVars, registryVars, loaderVars, countVars, lockVars>>

---------------------------------------------------------------------------
\* Bounds of the model.

MaxSessions == 2
MaxAttemptsBound == 3
UsizeBits == 29
CIntBits == 27

Sessions == 1..MaxSessions

MaxThreads == 2
MaxConstructions == 3

Threads == 1..MaxThreads

UsizeMod == 2^UsizeBits
UsizeMax == UsizeMod - 1
IsizeMax == 2^(UsizeBits - 1) - 1
CIntMod == 2^CIntBits
CIntMax == 2^(CIntBits - 1) - 1

\* Program constants.
ConnectAttempts == 5
ConnectBufferSize == 10240
DisconnectBufferSize == 1024
QueryBufferSize == 2097152
RetryDelayMs == 100
MiB == 1048576

---------------------------------------------------------------------------
\* Text.

NUL == "<NUL>"
\* The text "buffer size insufficient" of ths.rs:199, which ths.rs:284 searches for.
BufferMarker == "<buffer size insufficient>"

Contains(text, pat) == \E i \in 1..Len(text) : text[i] = pat

\* serde_json string escaping: a control character never appears raw.
JsonEscapeFragment(f) == IF f = NUL THEN "\\u0000" ELSE f

JsonEscape(text) == [i \in 1..Len(text) |-> JsonEscapeFragment(text[i])]

\* serde_json::to_string(&self.ops)
OpsToJson(o) ==
    <<"{\"username\":\"">> \o JsonEscape(o.username)
        \o <<"\",\"password\":\"">> \o JsonEscape(o.password)
        \o <<"\",\"lib_ver\":\"">> \o JsonEscape(o.lib_ver) \o <<"\"}">>

\* format!("{:.2}", n as f64 / (1024.0 * 1024.0))
FormatMB(n) ==
    LET h == (n \div MiB) * 100 + ((n % MiB) * 100 + MiB \div 2) \div MiB
        frac == h % 100
    IN  <<ToString(h \div 100), ".", ToString(frac \div 10), ToString(frac % 10)>>

\* 'buffer_size as c_int': truncation to the width of c_int, two's complement.
AsCInt(n) ==
    LET m == n % CIntMod
    IN  IF m > CIntMax THEN m - CIntMod ELSE m

---------------------------------------------------------------------------
\* Results.

NoErr == [variant |-> "-", msg |-> <<>>]
NoResp == [err_info |-> "-", result |-> FALSE, dict_extra |-> FALSE]

OkRes(resp) == [kind |-> "Ok", resp |-> resp, err |-> NoErr]
UnitRes == OkRes(NoResp)
ErrRes(variant, msg) ==
    [kind |-> "Err", resp |-> NoResp, err |-> [variant |-> variant, msg |-> msg]]
PanicRes == [kind |-> "Panic", resp |-> NoResp, err |-> NoErr]
AbortRes == [kind |-> "Abort", resp |-> NoResp, err |-> NoErr]
NoRes == [kind |-> "None", resp |-> NoResp, err |-> NoErr]

ApiError(msg) == ErrRes("ApiError", msg)

---------------------------------------------------------------------------
\* JSON documents the native module can leave in the output buffer, and
\* serde's decoding of them into Response.

StrVal(s) == [t |-> "str", s |-> s, result |-> FALSE, dict_extra |-> FALSE]
ObjVal(r, d) == [t |-> "obj", s |-> "", result |-> r, dict_extra |-> d]

TextDoc(members) == [bytes |-> "text", syntax |-> TRUE, members |-> members]

\* {"err_info":"","payload":{}}
DocOk == TextDoc(<< <<"err_info", StrVal("")>>, <<"payload", ObjVal(FALSE, FALSE)>> >>)
\* {"payload":{"result":[...],"dict_extra":{...}},"err_info":""}
DocOkResult == TextDoc(<< <<"payload", ObjVal(TRUE, TRUE)>>, <<"err_info", StrVal("")>> >>)
\* {"err_info":"market closed","payload":{}}
DocErrInfo ==
    TextDoc(<< <<"err_info", StrVal("market closed")>>, <<"payload", ObjVal(FALSE, FALSE)>> >>)
\* {"errInfo":"","payload":{}}: the literal of ths.rs:195
DocErrInfoCamel == TextDoc(<< <<"errInfo", StrVal("")>>, <<"payload", ObjVal(FALSE, FALSE)>> >>)
\* {"err_info":"","payload":"<the text of BufferMarker>"}
DocPayloadString == TextDoc(<< <<"err_info", StrVal("")>>, <<"payload", StrVal(BufferMarker)>> >>)
\* {"err_info":"","err_info":"","payload":{}}
DocDuplicate ==
    TextDoc(<< <<"err_info", StrVal("")>>, <<"err_info", StrVal("")>>,
               <<"payload", ObjVal(FALSE, FALSE)>> >>)
\* not JSON at all
DocSyntax == [bytes |-> "text", syntax |-> FALSE, members |-> <<>>]
\* bytes that are not UTF-8
DocBadUtf8 == [bytes |-> "badutf8", syntax |-> FALSE, members |-> <<>>]
\* the buffer left as it was: a NUL at offset 0
DocEmpty == [bytes |-> "empty", syntax |-> FALSE, members |-> <<>>]

Docs == {DocOk, DocOkResult, DocErrInfo, DocErrInfoCamel, DocPayloadString,
         DocDuplicate, DocSyntax, DocBadUtf8, DocEmpty}

\* ths.rs:193: "JSON parse failed: {}"
JsonError(detail) == ApiError(<<"<JSON parse failed>: ">> \o detail \o <<" at line 1 column N">>)

InvalidType(v, expected) ==
    IF v.t = "str"
    THEN JsonError(<<"invalid type: string \"", v.s, "\", expected ", expected>>)
    ELSE JsonError(<<"invalid type: map, expected ", expected>>)

\* The visitor #[derive(Deserialize)] generates for Response: the members in
\* document order, unknown keys ignored, then the missing-field checks.
\* ei and pl are the Option<String> and Option<Payload> collected so far.
RECURSIVE VisitMap(_, _, _, _)
VisitMap(members, i, ei, pl) ==
    IF i > Len(members)
    THEN IF ei = <<>> THEN JsonError(<<"missing field 'err_info'">>)
         ELSE IF pl = <<>> THEN JsonError(<<"missing field 'payload'">>)
         ELSE OkRes([err_info |-> ei[1], result |-> pl[1].result,
                     dict_extra |-> pl[1].dict_extra])
    ELSE LET key == members[i][1]
             v == members[i][2]
         IN  CASE key = "err_info" ->
                    IF ei # <<>> THEN JsonError(<<"duplicate field 'err_info'">>)
                    ELSE IF v.t # "str" THEN InvalidType(v, "a string")
                    ELSE VisitMap(members, i + 1, <<v.s>>, pl)
               [] key = "payload" ->
                    IF pl # <<>> THEN JsonError(<<"duplicate field 'payload'">>)
                    ELSE IF v.t # "obj" THEN InvalidType(v, "struct Payload")
                    ELSE VisitMap(members, i + 1, ei, <<v>>)
               [] OTHER -> VisitMap(members, i + 1, ei, pl)

\* serde_json::from_str::<Response>(output)
FromStrResponse(doc) ==
    IF ~doc.syntax THEN JsonError(<<"expected value">>)
    ELSE VisitMap(doc.members, 1, <<>>, <<>>)

---------------------------------------------------------------------------
\* The native module.

BufferInsufficient == 0 - 1
OtherCodes == {2}

\* What one invocation of the exported Call does: its return code, the bytes
\* it leaves in the output buffer, and (segv) what reading through the
\* dangling pointer of a zero-length buffer does.
NativeOutcomes ==
    [code : {0}, out : Docs, segv : {FALSE}]
        \cup [code : {0}, out : {DocEmpty}, segv : {TRUE}]
        \cup [code : {BufferInsufficient} \cup OtherCodes, out : {DocEmpty}, segv : {FALSE}]

ResClass(res) ==
    CASE res.kind = "Ok" /\ res.resp.err_info = "" -> "ok"
      [] res.kind = "Ok" -> "okerr"
      [] res.kind = "Abort" -> "abort"
      [] OTHER -> "err"

FirstNul(text) == CHOOSE i \in 1..Len(text) :
                      text[i] = NUL /\ \A j \in 1..(i - 1) : text[j] # NUL

\* match result { 0 => ..., -1 => ..., _ => ... } of THS::call
MatchResult(method, buffer_size, nat) ==
    CASE nat.code = 0 ->
            IF buffer_size = 0 /\ nat.segv THEN AbortRes
            \* ths.rs:191: "output decoding failed: {}"
            ELSE IF nat.out.bytes = "badutf8"
                 THEN ApiError(<<"<output decoding failed>: ", "invalid utf-8 sequence">>)
            ELSE IF nat.out.bytes # "empty" THEN FromStrResponse(nat.out)
            ELSE FromStrResponse(DocErrInfoCamel)
      [] nat.code = BufferInsufficient ->
            \* ths.rs:199: "buffer size insufficient, current size: {:.2} MB"
            ApiError(<<BufferMarker, ", <current size>: ">> \o FormatMB(buffer_size) \o <<" MB">>)
      [] OTHER ->
            \* ths.rs:203: "error code: {}, method not found: {}"
            ApiError(<<"<error code>: ", ToString(nat.code), ", <method not found>: ">> \o method)

\* THS::call::<Response>(method, params, buffer_size).  The value is what the
\* call returned (res), the native invocations it made (calls: none or one)
\* and CALL_FN afterwards.
Call(method, params, buffer_size, nat) ==
    LET input == <<"{\"method\":\"">> \o method \o <<"\",\"params\":">> \o params \o <<"}">>
    IN  IF Contains(input, NUL)
        \* ths.rs:171: "invalid input parameter: {}"
        THEN [res |-> ApiError(<<"<invalid input parameter>: ",
                                 "nul byte found in provided data at position: ",
                                 ToString(FirstNul(input) - 1)>>),
              calls |-> <<>>, call_fn |-> CALL_FN]
        \* vec![0u8; buffer_size]: more than isize::MAX bytes is a capacity overflow
        ELSE IF buffer_size > IsizeMax
        THEN [res |-> PanicRes, calls |-> <<>>, call_fn |-> CALL_FN]
        \* CALL_FN.get_or_init(|| *self.lib.get(b"Call").unwrap())
        ELSE IF ~CALL_FN /\ ~LIBRARY.hasCall
        THEN [res |-> PanicRes, calls |-> <<>>, call_fn |-> FALSE]
        ELSE LET res == MatchResult(method, buffer_size, nat)
             IN  [res |-> res,
                  calls |-> << [method |-> method,
                                buffer_len |-> buffer_size,
                                capacity |-> AsCInt(buffer_size),
                                res |-> ResClass(res)] >>,
                  call_fn |-> TRUE]

---------------------------------------------------------------------------
\* Inputs.

OptionInputs ==
    {[username |-> <<>>, password |-> <<>>, lib_ver |-> <<>>],
     [username |-> <<"u", NUL>>, password |-> <<"pw">>, lib_ver |-> <<"2">>]}

\* guest::rand_account()
GuestAccount == <<<<"guest">>, <<"guest-pw">>>>

\* What Library::new(lib_path) finds: whether the file loads, and whether the
\* loaded module exports Call.
LoadOutcomes ==
    {[ok |-> FALSE, hasCall |-> FALSE], [ok |-> TRUE, hasCall |-> FALSE],
     [ok |-> TRUE, hasCall |-> TRUE]}

\* The callers pass "fu", "bk" or "zhu"; the key only fills the method name.
ServiceKeys == {"zhu"}
Requests == {<<"\"id=207&instance=6666666\"">>, <<"\"id=207&code=", NUL, "\"">>}
InitialCapacities ==
    {0, QueryBufferSize, CIntMax + 1, IsizeMax \div 2 + 1, IsizeMax + 1}
QueryInputs ==
    [req : Requests, service_key : ServiceKeys, buffer_size : InitialCapacities,
     max_attempts : 0..MaxAttemptsBound]

NoLibrary == [loaded |-> FALSE, ver |-> <<>>, hasCall |-> FALSE]
NoOps == [username |-> <<>>, password |-> <<>>, lib_ver |-> <<>>]
NoOp == [op |-> "none", s |-> 0, loginBefore |-> FALSE]
NoArgs == [req |-> <<>>, service_key |-> "", buffer_size |-> 0, max_attempts |-> 0]
NoPrev == [valid |-> FALSE, s |-> 0, loginBefore |-> FALSE, ncalls |-> 0, ok |-> FALSE]

\* A OnceCell nobody has initialised: state is "empty", "running" (one
\* thread is inside the initialiser) or "full" (value is set for good).
EmptyCell == [state |-> "empty", value |-> 0]

\* No registry operation: what lastOp and prevOp hold before there is one.
NoRegistryOp ==
    [op |-> "none", index |-> 0, data |-> "", closure |-> 0, table |-> <<>>,
     invoked |-> <<>>, aborted |-> FALSE]

---------------------------------------------------------------------------
\* The state machine.

Init ==
    /\ arch \in {"x86_64", "aarch64"}
    /\ LIBRARY = NoLibrary
    /\ CALL_FN = FALSE
    /\ alive = [s \in Sessions |-> FALSE]
    /\ login = [s \in Sessions |-> FALSE]
    /\ ops = [s \in Sessions |-> NoOps]
    /\ pc = "idle"
    /\ cur = NoOp
    /\ args = NoArgs
    /\ attempt = 0
    /\ current_buffer_size = 0
    /\ calls = <<>>
    /\ sleeps = <<>>
    /\ lastRes = NoRes
    /\ retried = {}
    /\ ret = NoRes
    /\ prev = NoPrev
    /\ CALLBACKS = <<>>
    /\ issued = <<>>
    /\ wrappers = {}
    /\ undisturbed = {}
    /\ direct = FALSE
    /\ lastOp = NoRegistryOp
    /\ prevOp = NoRegistryOp
    /\ discipline = [kept |-> TRUE, stack |-> <<>>]
    /\ libraryCell = EmptyCell
    /\ callFnCell = EmptyCell
    /\ tpc = [t \in Threads |-> "idle"]
    /\ tver = [t \in Threads |-> <<>>]
    /\ tlib = [t \in Threads |-> 0]
    /\ loads = <<>>
    /\ resolves = 0
    /\ constructions = 0
    /\ connects = 0
    /\ disconnects = 0
    /\ lock = 0                \* NoThread
    /\ frames = [t \in 1..MaxThreads |-> <<>>]
    /\ removed = {}
    /\ halted = FALSE

\* An operation that starts and returns within one step.
Returns(op, s, cs, res, r) ==
    /\ cur' = [op |-> op, s |-> s, loginBefore |-> login[s]]
    /\ calls' = cs
    /\ sleeps' = <<>>
    /\ lastRes' = res
    /\ retried' = {}
    /\ ret' = r
    /\ pc' = IF r.kind = "Abort" THEN "aborted" ELSE "returned"
    /\ attempt' = 0
    /\ current_buffer_size' = 0

\* A loop operation (connect, cmd_query_data) returns r.
LoopReturns(cs, res, r) ==
    /\ calls' = cs
    /\ lastRes' = res
    /\ ret' = r
    /\ pc' = IF r.kind = "Abort" THEN "aborted" ELSE "returned"
    /\ attempt' = 0
    /\ current_buffer_size' = 0
    /\ UNCHANGED <<cur, sleeps, retried>>

\* THS::new(Some(o)).  get_lib_path fails on aarch64; a failing current_dir()
\* (the process has no working directory) is left out.
New(s, o, load) ==
    /\ pc = "idle"
    /\ ~alive[s]
    /\ LET account == IF o.username = <<>> \/ o.password = <<>>
                      THEN GuestAccount
                      ELSE <<o.username, o.password>>
           made == [username |-> account[1], password |-> account[2],
                    lib_ver |-> o.lib_ver]
           created == /\ alive' = [alive EXCEPT ![s] = TRUE]
                      /\ login' = [login EXCEPT ![s] = FALSE]
                      /\ ops' = [ops EXCEPT ![s] = made]
                      /\ Returns("new", s, <<>>, NoRes, UnitRes)
       IN  CASE arch = "aarch64" ->
                  \* get_lib_path: Err(UnsupportedPlatform)
                  /\ Returns("new", s, <<>>, NoRes,
                             ErrRes("UnsupportedPlatform", <<"<Apple M chips unsupported>">>))
                  /\ UNCHANGED <<LIBRARY, alive, login, ops>>
             [] arch # "aarch64" /\ LIBRARY.loaded ->
                  created /\ UNCHANGED LIBRARY
             [] arch # "aarch64" /\ ~LIBRARY.loaded /\ load.ok ->
                  /\ LIBRARY' = [loaded |-> TRUE, ver |-> o.lib_ver, hasCall |-> load.hasCall]
                  /\ created
             [] OTHER ->
                  \* Library::new(lib_path).unwrap() panics; the cell stays empty
                  /\ Returns("new", s, <<>>, NoRes, PanicRes)
                  /\ UNCHANGED <<LIBRARY, alive, login, ops>>
    /\ prev' = NoPrev
    /\ UNCHANGED <<arch, CALL_FN, args, registryVars, loaderVars, countVars, lockVars>>

\* #[derive(Clone)] for THS: t becomes a copy of s.
Clone(s, t) ==
    /\ pc = "idle"
    /\ alive[s]
    /\ ~alive[t]
    /\ alive' = [alive EXCEPT ![t] = TRUE]
    /\ login' = [login EXCEPT ![t] = login[s]]
    /\ ops' = [ops EXCEPT ![t] = ops[s]]
    /\ Returns("clone", s, <<>>, NoRes, UnitRes)
    /\ prev' = NoPrev
    /\ UNCHANGED <<arch, LIBRARY, CALL_FN, args, registryVars, loaderVars, countVars, lockVars>>

\* THS::connect, entry: the for loop starts at attempt 0.
ConnectBegin(s) ==
    /\ pc = "idle"
    /\ alive[s]
    /\ pc' = "connect"
    /\ cur' = [op |-> "connect", s |-> s, loginBefore |-> login[s]]
    /\ attempt' = 0
    /\ calls' = <<>>
    /\ sleeps' = <<>>
    /\ lastRes' = NoRes
    /\ retried' = {}
    /\ ret' = NoRes
    /\ prev' = NoPrev
    /\ UNCHANGED <<arch, LIBRARY, CALL_FN, alive,
                 login, ops, args, current_buffer_size, registryVars, loaderVars, countVars, lockVars>>

Backoff_Linear(n) == 1000 * (n + 1)

\* Duration::from_secs(1 << attempt), in ms
Backoff(n) == 1000 * 2^n

ConnectAttempt_AnyOkLogsIn(s, n, nat) ==
    LET c == Call(<<"connect">>, OpsToJson(ops[s]), ConnectBufferSize, nat)
        done == c.res.kind \in {"Panic", "Abort", "Ok"}
    IN  [call |-> c,
         returns |-> done,
         login |-> c.res.kind = "Ok",
         sleep |-> IF done THEN <<>> ELSE <<Backoff(n)>>]

\* The value of the connect loop's body: one call, then either the return or
\* the sleep before the next attempt.
ConnectAttempt(s, n, nat) ==
    LET c == Call(<<"connect">>, OpsToJson(ops[s]), ConnectBufferSize, nat)
        done == c.res.kind \in {"Panic", "Abort"}
                    \/ (c.res.kind = "Ok" /\ c.res.resp.err_info = "")
    IN  [call |-> c,
         returns |-> done,
         login |-> c.res.kind = "Ok" /\ c.res.resp.err_info = "",
         sleep |-> IF done THEN <<>> ELSE <<Backoff(n)>>]

\* One iteration of "for attempt in 0..5".
ConnectStep(nat) ==
    /\ pc = "connect"
    /\ attempt < ConnectAttempts
    /\ LET s == cur.s
           a == ConnectAttempt(s, attempt, nat)
       IN  /\ CALL_FN' = a.call.call_fn
           /\ login' = IF a.login THEN [login EXCEPT ![s] = TRUE] ELSE login
           /\ IF a.returns
              THEN LoopReturns(calls \o a.call.calls, a.call.res, a.call.res)
              ELSE /\ calls' = calls \o a.call.calls
                   /\ lastRes' = a.call.res
                   /\ sleeps' = sleeps \o a.sleep
                   /\ attempt' = attempt + 1
                   /\ UNCHANGED <<pc, cur, ret, current_buffer_size, retried>>
    /\ UNCHANGED <<arch, LIBRARY, alive, ops, args, prev, registryVars, loaderVars, countVars, lockVars>>

\* ths.rs:234: "connection failed after 5 attempts"
ConnectFailure == ApiError(<<"<connection failed after 5 attempts>">>)

\* The for loop is over.
ConnectExhaust ==
    /\ pc = "connect"
    /\ ~(attempt < ConnectAttempts)
    /\ LoopReturns(calls, lastRes, ConnectFailure)
    /\ UNCHANGED <<arch, LIBRARY, CALL_FN, alive, login, ops, args, prev, registryVars, loaderVars, countVars, lockVars>>

DisconnectBody_KeepsLogin(s, nat) ==
    IF login[s]
    THEN LET c == Call(<<"disconnect">>, <<>>, DisconnectBufferSize, nat)
         IN  [login |-> TRUE, calls |-> c.calls, res |-> c.res, call_fn |-> c.call_fn,
              ret |-> IF c.res.kind = "Ok" THEN UnitRes ELSE c.res]
    ELSE [login |-> login[s], calls |-> <<>>, res |-> NoRes, call_fn |-> CALL_FN,
          ret |-> UnitRes]

DisconnectBody_LoginClearedAfterCall(s, nat) ==
    IF login[s]
    THEN LET c == Call(<<"disconnect">>, <<>>, DisconnectBufferSize, nat)
         IN  [login |-> c.res.kind # "Ok", calls |-> c.calls, res |-> c.res,
              call_fn |-> c.call_fn,
              ret |-> IF c.res.kind = "Ok" THEN UnitRes ELSE c.res]
    ELSE [login |-> login[s], calls |-> <<>>, res |-> NoRes, call_fn |-> CALL_FN,
          ret |-> UnitRes]

\* The body of THS::disconnect on session s.
DisconnectBody(s, nat) ==
    IF login[s]
    THEN LET c == Call(<<"disconnect">>, <<>>, DisconnectBufferSize, nat)
         IN  [login |-> FALSE, calls |-> c.calls, res |-> c.res, call_fn |-> c.call_fn,
              ret |-> IF c.res.kind = "Ok" THEN UnitRes ELSE c.res]
    ELSE [login |-> login[s], calls |-> <<>>, res |-> NoRes, call_fn |-> CALL_FN,
          ret |-> UnitRes]

\* The summary of the operation that has returned, kept when it was a disconnect.
PrevDisconnect ==
    IF cur.op = "disconnect"
    THEN [valid |-> TRUE, s |-> cur.s, loginBefore |-> cur.loginBefore,
          ncalls |-> Len(calls), ok |-> ret.kind = "Ok"]
    ELSE NoPrev

\* THS::disconnect
Disconnect(s, nat) ==
    /\ pc = "idle"
    /\ alive[s]
    /\ LET d == DisconnectBody(s, nat)
       IN  /\ login' = [login EXCEPT ![s] = d.login]
           /\ CALL_FN' = d.call_fn
           /\ Returns("disconnect", s, d.calls, d.res, d.ret)
    /\ UNCHANGED <<arch, LIBRARY, alive, ops, args, prev, registryVars, loaderVars, countVars, lockVars>>

DropBody_NoDisconnect(s, nat) ==
    [login |-> login[s], calls |-> <<>>, res |-> NoRes, call_fn |-> CALL_FN,
     ret |-> UnitRes]

\* The body of Drop::drop for THS.
DropBody(s, nat) ==
    IF login[s]
    THEN LET d == DisconnectBody(s, nat)
         IN  [d EXCEPT !.ret = IF d.ret.kind = "Err" THEN UnitRes ELSE d.ret]
    ELSE [login |-> login[s], calls |-> <<>>, res |-> NoRes, call_fn |-> CALL_FN,
          ret |-> UnitRes]

\* impl Drop for THS: the object s goes away.
Drop(s, nat) ==
    /\ pc = "idle"
    /\ alive[s]
    /\ LET d == DropBody(s, nat)
       IN  /\ CALL_FN' = d.call_fn
           /\ Returns("drop", s, d.calls, d.res, d.ret)
    /\ alive' = [alive EXCEPT ![s] = FALSE]
    /\ login' = [login EXCEPT ![s] = FALSE]
    /\ ops' = [ops EXCEPT ![s] = NoOps]
    /\ prev' = NoPrev
    /\ UNCHANGED <<arch, LIBRARY, args, registryVars, loaderVars, countVars, lockVars>>

\* ths.rs:265: "not logged in"
NotLoggedIn == ApiError(<<"<not logged in>">>)

NotConnected_Unchecked(s) == FALSE

\* if !self.login
NotConnected(s) == ~login[s]

\* THS::cmd_query_data, entry: the login check and the loop's initial state.
CmdQueryDataBegin(s, q) ==
    /\ pc = "idle"
    /\ alive[s]
    /\ args' = q
    /\ IF NotConnected(s)
       THEN Returns("cmd_query_data", s, <<>>, NoRes, NotLoggedIn)
       ELSE /\ pc' = "query"
            /\ cur' = [op |-> "cmd_query_data", s |-> s, loginBefore |-> login[s]]
            /\ current_buffer_size' = q.buffer_size
            /\ attempt' = 0
            /\ calls' = <<>>
            /\ sleeps' = <<>>
            /\ lastRes' = NoRes
            /\ retried' = {}
            /\ ret' = NoRes
    /\ prev' = NoPrev
    /\ UNCHANGED <<arch, LIBRARY, CALL_FN, alive, login, ops, registryVars, loaderVars, countVars, lockVars>>

\* ths.rs:284: the guard of the retry arm.
IsBufferInsufficient(res) ==
    /\ res.kind = "Err"
    /\ res.err.variant = "ApiError"
    /\ Contains(res.err.msg, BufferMarker)

WhileGuard_OffByOne(n, max) == n <= max

\* while attempt < max_attempts
WhileGuard(n, max) == n < max

Doubled_AddsTwo(n) == (n + 2) % UsizeMod

\* current_buffer_size *= 2, at the width of usize.  A call is made only with
\* a buffer of at most isize::MAX bytes, so the product never wraps in a run.
Doubled(n) == (n * 2) % UsizeMod

\* One iteration of "while attempt < max_attempts".
CmdQueryDataStep(nat) ==
    /\ pc = "query"
    /\ WhileGuard(attempt, args.max_attempts)
    /\ LET c == Call(<<"cmd.query_data.", args.service_key>>, args.req,
                     current_buffer_size, nat)
       IN  /\ CALL_FN' = c.call_fn
           /\ IF IsBufferInsufficient(c.res)
              THEN /\ calls' = calls \o c.calls
                   /\ lastRes' = c.res
                   /\ sleeps' = Append(sleeps, RetryDelayMs)
                   /\ current_buffer_size' = Doubled(current_buffer_size)
                   /\ attempt' = attempt + 1
                   /\ retried' = IF c.calls = <<>> THEN retried ELSE retried \cup {nat.code}
                   /\ UNCHANGED <<pc, cur, ret>>
              ELSE LoopReturns(calls \o c.calls, c.res, c.res)
    /\ UNCHANGED <<arch, LIBRARY, alive, login, ops, args, prev, registryVars, loaderVars, countVars, lockVars>>

\* ths.rs:299: "max attempts reached, request: {}, final buffer size: {}"
MaxAttemptsReached(req, size) ==
    ApiError(<<"<max attempts reached, request>: ">> \o req
                 \o <<", <final buffer size>: ", ToString(size)>>)

\* The while loop is over.
CmdQueryDataExhaust ==
    /\ pc = "query"
    /\ ~WhileGuard(attempt, args.max_attempts)
    /\ LoopReturns(calls, lastRes, MaxAttemptsReached(args.req, current_buffer_size))
    /\ UNCHANGED <<arch, LIBRARY, CALL_FN, alive, login, ops, args, prev, registryVars, loaderVars, countVars, lockVars>>

\* The operation's frame ends and its caller goes on: the locals are gone.
Return ==
    /\ pc = "returned"
    /\ pc' = "idle"
    /\ prev' = PrevDisconnect
    /\ cur' = NoOp
    /\ args' = NoArgs
    /\ calls' = <<>>
    /\ sleeps' = <<>>
    /\ lastRes' = NoRes
    /\ retried' = {}
    /\ ret' = NoRes
    /\ UNCHANGED <<arch, LIBRARY, CALL_FN, alive,
                 login, ops, attempt, current_buffer_size, registryVars, loaderVars, countVars, lockVars>>

Next ==
    \/ \E s \in Sessions, o \in OptionInputs, load \in LoadOutcomes : New(s, o, load)
    \/ \E s, t \in Sessions : Clone(s, t)
    \/ \E s \in Sessions : ConnectBegin(s)
    \/ \E nat \in NativeOutcomes : ConnectStep(nat)
    \/ ConnectExhaust
    \/ \E s \in Sessions, nat \in NativeOutcomes : Disconnect(s, nat)
    \/ \E s \in Sessions, nat \in NativeOutcomes : Drop(s, nat)
    \/ \E s \in Sessions, q \in QueryInputs : CmdQueryDataBegin(s, q)
    \/ \E nat \in NativeOutcomes : CmdQueryDataStep(nat)
    \/ CmdQueryDataExhaust
    \/ Return

Spec == Init /\ [][Next]_vars

---------------------------------------------------------------------------
\* The callback registry of callback.rs.  A closure is a number: closure c is
\* the one passed to the c-th registration of the process.  Every operation
\* holds the lock of CALLBACKS from its first line to its return, so each is
\* one step.

MaxRegistrations == 3

\* usize values passed as an index or as user_data: every index a table can
\* have, and one beyond them all.
Indices == 0..MaxRegistrations
\* *const c_char values the native module passes to callback_handler
Payloads == {"p1", "p2"}
\* What running a closure does: it returns, or it panics.
ClosureOutcomes == {"returns", "panics"}

Range(table) == {table[i] : i \in 1..Len(table)}

\* callbacks.push(Box::new(callback)) after index = callbacks.len()
Push_IndexAfterPush(table, c) == [index |-> Len(table) + 1, table |-> Append(table, c)]

Push(table, c) == [index |-> Len(table), table |-> Append(table, c)]

Remove_SwapRemove(table, index) ==
    IF index < Len(table)
    THEN [i \in 1..(Len(table) - 1) |->
              IF i = index + 1 THEN table[Len(table)] ELSE table[i]]
    ELSE table

Remove_KeepsLast(table, index) ==
    IF index + 1 < Len(table)
    THEN [i \in 1..(Len(table) - 1) |-> IF i <= index THEN table[i] ELSE table[i + 1]]
    ELSE table

\* if index < callbacks.len() { callbacks.remove(index); }: the entries after
\* index move down by one.
Remove(table, index) ==
    IF index < Len(table)
    THEN [i \in 1..(Len(table) - 1) |-> IF i <= index THEN table[i] ELSE table[i + 1]]
    ELSE table

Get_WrapsAround(table, index) ==
    IF table # <<>> THEN <<table[(index % Len(table)) + 1]>> ELSE <<>>

\* callbacks.get(index): Some(entry) or None
Get(table, index) == IF index < Len(table) THEN <<table[index + 1]>> ELSE <<>>

Running == ~lastOp.aborted

\* A registry operation has ended: lastOp becomes prevOp.
Ends(op, index, data, closure, invoked, aborted) ==
    /\ lastOp' = [op |-> op, index |-> index, data |-> data, closure |-> closure,
                  table |-> CALLBACKS, invoked |-> invoked, aborted |-> aborted]
    /\ prevOp' = [lastOp EXCEPT !.invoked = <<>>, !.data = ""]

\* The callers' side of a registration: the handle for closure c is kept
\* until it is passed to unregister_callback.
Issue(d, c, index) ==
    IF d.kept THEN [d EXCEPT !.stack = Append(@, [closure |-> c, handle |-> index])] ELSE d

\* The callers' side of unregister_callback(index): the discipline is kept
\* when index is the handle issued last among those still held.
Retire(d, index) ==
    IF d.kept /\ d.stack # <<>> /\ d.stack[Len(d.stack)].handle = index
    THEN [d EXCEPT !.stack = SubSeq(@, 1, Len(@) - 1)]
    ELSE [kept |-> FALSE, stack |-> <<>>]

\* register_callback(callback): callback is closure number Len(issued) + 1.
register_callback ==
    /\ Running
    /\ Len(issued) < MaxRegistrations
    /\ LET c == Len(issued) + 1
           r == Push(CALLBACKS, c)
       IN  /\ CALLBACKS' = r.table
           /\ issued' = Append(issued, r.index)
           /\ undisturbed' = undisturbed \cup {c}
           /\ discipline' = Issue(discipline, c, r.index)
           /\ Ends("register", r.index, "", c, <<>>, FALSE)
    /\ UNCHANGED <<wrappers, direct, sessionVars, loaderVars, countVars, lockVars>>

\* unregister_callback(index)
unregister_callback(index) ==
    /\ Running
    /\ CALLBACKS' = Remove(CALLBACKS, index)
    /\ undisturbed' = {}
    /\ direct' = TRUE
    /\ discipline' = Retire(discipline, index)
    /\ Ends("unregister", index, "", 0, <<>>, FALSE)
    /\ UNCHANGED <<issued, wrappers, sessionVars, loaderVars, countVars, lockVars>>

\* callback_handler(data, user_data), index = user_data as usize.  A panic of
\* the closure cannot unwind out of an extern "C" function: the process
\* aborts.
callback_handler(data, index, outcome) ==
    /\ Running
    /\ LET found == Get(CALLBACKS, index)
           invoked == [i \in 1..Len(found) |-> [closure |-> found[i], data |-> data]]
       IN  /\ found = <<>> => outcome = "returns"
           /\ Ends("dispatch", index, data, 0, invoked, outcome = "panics")
    /\ UNCHANGED <<CALLBACKS, issued, wrappers, undisturbed, direct, discipline,
                   sessionVars, loaderVars, countVars, lockVars>>

\* CallbackWrapper::new(callback): the wrapper keeps the index it was given.
\* Its 'closure' field is not in the struct: it names the closure the wrapper
\* registered.
CallbackWrapper_new ==
    /\ Running
    /\ Len(issued) < MaxRegistrations
    /\ LET c == Len(issued) + 1
           r == Push(CALLBACKS, c)
       IN  /\ CALLBACKS' = r.table
           /\ issued' = Append(issued, r.index)
           /\ undisturbed' = undisturbed \cup {c}
           /\ wrappers' = wrappers \cup {[index |-> r.index, closure |-> c]}
           /\ discipline' = Issue(discipline, c, r.index)
           /\ Ends("wrapper_new", r.index, "", c, <<>>, FALSE)
    /\ UNCHANGED <<direct, sessionVars, loaderVars, countVars, lockVars>>

\* CallbackWrapper::get_user_data
get_user_data(w) == w.index

\* impl Drop for CallbackWrapper: unregister_callback(self.index)
CallbackWrapper_drop(w) ==
    /\ Running
    /\ w \in wrappers
    /\ CALLBACKS' = Remove(CALLBACKS, w.index)
    /\ undisturbed' = {}
    /\ wrappers' = wrappers \ {w}
    /\ discipline' = Retire(discipline, w.index)
    /\ Ends("wrapper_drop", w.index, "", w.closure, <<>>, FALSE)
    /\ UNCHANGED <<issued, direct, sessionVars, loaderVars, countVars, lockVars>>

RegistryNext ==
    \/ register_callback
    \/ \E index \in Indices : unregister_callback(index)
    \/ \E data \in Payloads, index \in Indices, outcome \in ClosureOutcomes :
          callback_handler(data, index, outcome)
    \/ CallbackWrapper_new
    \/ \E w \in wrappers : CallbackWrapper_drop(w)

\* The session side stays as it starts; the registry does not read it.
RegistryInit == Init /\ arch = "x86_64"

RegistrySpec == RegistryInit /\ [][RegistryNext]_vars

---------------------------------------------------------------------------
\* THS::new and the first THS::call on concurrent threads: the two
\* OnceCell::get_or_init of ths.rs:117 and ths.rs:185, step by step.  A
\* module is its place in 'loads'.

Versions == {o.lib_ver : o \in OptionInputs}

\* The sessions of a thread that has one hold a module.
HasSession(t) == tpc[t] \in {"constructed", "get_call_fn", "resolving", "called"}

MayInitialize_Unguarded(cell) == cell.state # "full"

\* get_or_init lets a thread run the initialiser only when the cell is empty
\* and no other thread is running it.
MayInitialize(cell) == cell.state = "empty"

\* THS::new(Some(ThsOption { lib_ver: ver, .. })), up to get_lib_path
NewBegin(t, ver) ==
    /\ tpc[t] = "idle"
    /\ constructions < MaxConstructions
    /\ constructions' = constructions + 1
    /\ tver' = [tver EXCEPT ![t] = ver]
    /\ tlib' = [tlib EXCEPT ![t] = 0]
    /\ tpc' = [tpc EXCEPT ![t] = IF arch = "aarch64" THEN "failed" ELSE "get_library"]
    /\ UNCHANGED <<libraryCell, callFnCell, loads, resolves, sessionVars, registryVars, countVars, lockVars>>

\* LIBRARY.get_or_init(..): the value when there is one, else the thread
\* becomes the initialiser; while another thread initialises, it waits.
LibraryGetOrInit(t) ==
    /\ tpc[t] = "get_library"
    /\ \/ /\ libraryCell.state = "full"
          /\ tlib' = [tlib EXCEPT ![t] = libraryCell.value]
          /\ tpc' = [tpc EXCEPT ![t] = "constructed"]
          /\ UNCHANGED libraryCell
       \/ /\ MayInitialize(libraryCell)
          /\ libraryCell' = [libraryCell EXCEPT !.state = "running"]
          /\ tpc' = [tpc EXCEPT ![t] = "loading"]
          /\ UNCHANGED tlib
    /\ UNCHANGED <<callFnCell, tver, loads, resolves, constructions,
                   sessionVars, registryVars, countVars, lockVars>>

\* The initialiser: Library::new(lib_path).unwrap().  A failure panics and
\* leaves the cell empty.
LibraryLoad(t, load) ==
    /\ tpc[t] = "loading"
    /\ IF load.ok
       THEN /\ loads' = Append(loads, [ver |-> tver[t], hasCall |-> load.hasCall])
            /\ libraryCell' = [state |-> "full", value |-> Len(loads) + 1]
            /\ tlib' = [tlib EXCEPT ![t] = Len(loads) + 1]
            /\ tpc' = [tpc EXCEPT ![t] = "constructed"]
       ELSE /\ libraryCell' = IF libraryCell.state = "full" THEN libraryCell ELSE EmptyCell
            /\ tpc' = [tpc EXCEPT ![t] = "panicked"]
            /\ UNCHANGED <<loads, tlib>>
    /\ UNCHANGED <<callFnCell, tver, resolves, constructions, sessionVars, registryVars, countVars, lockVars>>

\* THS::call on the thread's session, up to CALL_FN.get_or_init
CallBegin(t) ==
    /\ tpc[t] = "constructed"
    /\ tpc' = [tpc EXCEPT ![t] = "get_call_fn"]
    /\ UNCHANGED <<libraryCell, callFnCell, tver, tlib, loads, resolves, constructions,
                   sessionVars, registryVars, countVars, lockVars>>

\* CALL_FN.get_or_init(..)
CallFnGetOrInit(t) ==
    /\ tpc[t] = "get_call_fn"
    /\ \/ /\ callFnCell.state = "full"
          /\ tpc' = [tpc EXCEPT ![t] = "called"]
          /\ UNCHANGED callFnCell
       \/ /\ MayInitialize(callFnCell)
          /\ callFnCell' = [callFnCell EXCEPT !.state = "running"]
          /\ tpc' = [tpc EXCEPT ![t] = "resolving"]
    /\ UNCHANGED <<libraryCell, tver, tlib, loads, resolves, constructions,
                   sessionVars, registryVars, countVars, lockVars>>

\* The initialiser: *self.lib.get(b"Call").unwrap()
CallFnResolve(t) ==
    /\ tpc[t] = "resolving"
    /\ IF loads[tlib[t]].hasCall
       THEN /\ resolves' = resolves + 1
            /\ callFnCell' = [state |-> "full", value |-> tlib[t]]
            /\ tpc' = [tpc EXCEPT ![t] = "called"]
       ELSE /\ callFnCell' = IF callFnCell.state = "full" THEN callFnCell ELSE EmptyCell
            /\ tpc' = [tpc EXCEPT ![t] = "panicked"]
            /\ UNCHANGED resolves
    /\ UNCHANGED <<libraryCell, tver, tlib, loads, constructions, sessionVars, registryVars, countVars, lockVars>>

\* The thread's session goes out of scope (or its construction returned an
\* error); the thread is free for another construction.
SessionEnd(t) ==
    /\ tpc[t] \in {"constructed", "called", "failed"}
    /\ tpc' = [tpc EXCEPT ![t] = "idle"]
    /\ tlib' = [tlib EXCEPT ![t] = 0]
    /\ UNCHANGED <<libraryCell, callFnCell, tver, loads, resolves, constructions,
                   sessionVars, registryVars, countVars, lockVars>>

LoaderNext ==
    \/ \E t \in Threads, ver \in Versions : NewBegin(t, ver)
    \/ \E t \in Threads : LibraryGetOrInit(t)
    \/ \E t \in Threads, load \in LoadOutcomes : LibraryLoad(t, load)
    \/ \E t \in Threads : CallBegin(t)
    \/ \E t \in Threads : CallFnGetOrInit(t)
    \/ \E t \in Threads : CallFnResolve(t)
    \/ \E t \in Threads : SessionEnd(t)

LoaderSpec == Init /\ [][LoaderNext]_vars

---------------------------------------------------------------------------
\* The life of session objects, with the native connect and disconnect calls
\* of the process counted: construction, clone, connect, disconnect and
\* destruction as in Spec, built from the same bodies (ConnectAttempt,
\* DisconnectBody, DropBody), without the per-operation records.

MaxNativeCalls == 3

\* What these operations do not touch.
recordVars == <<args, current_buffer_size, calls, sleeps, lastRes, retried, ret, prev>>

\* THS::new(Some(o)) on x86_64.  A construction that fails (the module does
\* not load) leaves no object.
CountedNew(s, o, load) ==
    /\ pc = "idle"
    /\ ~alive[s]
    /\ LIBRARY.loaded \/ load.ok
    /\ LET account == IF o.username = <<>> \/ o.password = <<>>
                      THEN GuestAccount
                      ELSE <<o.username, o.password>>
       IN  ops' = [ops EXCEPT ![s] = [username |-> account[1], password |-> account[2],
                                      lib_ver |-> o.lib_ver]]
    /\ alive' = [alive EXCEPT ![s] = TRUE]
    /\ login' = [login EXCEPT ![s] = FALSE]
    /\ LIBRARY' = IF LIBRARY.loaded THEN LIBRARY
                  ELSE [loaded |-> TRUE, ver |-> o.lib_ver, hasCall |-> load.hasCall]
    /\ UNCHANGED <<arch, CALL_FN, pc, cur, attempt, recordVars,
                   registryVars, loaderVars, countVars, lockVars>>

\* #[derive(Clone)] for THS: t becomes a copy of s, its login included.
CountedClone(s, t) ==
    /\ pc = "idle"
    /\ alive[s]
    /\ ~alive[t]
    /\ alive' = [alive EXCEPT ![t] = TRUE]
    /\ login' = [login EXCEPT ![t] = login[s]]
    /\ ops' = [ops EXCEPT ![t] = ops[s]]
    /\ UNCHANGED <<arch, LIBRARY, CALL_FN, pc, cur, attempt, recordVars,
                   registryVars, loaderVars, countVars, lockVars>>

\* THS::connect, entry
CountedConnectBegin(s) ==
    /\ pc = "idle"
    /\ alive[s]
    /\ connects < MaxNativeCalls
    /\ pc' = "connect"
    /\ cur' = [op |-> "connect", s |-> s, loginBefore |-> login[s]]
    /\ attempt' = 0
    /\ UNCHANGED <<arch, LIBRARY, CALL_FN, alive, login, ops, recordVars,
                   registryVars, loaderVars, countVars, lockVars>>

\* One iteration of "for attempt in 0..5"; the loop's end when it was the
\* last one or the attempt returned.
CountedConnectStep(nat) ==
    /\ pc = "connect"
    /\ attempt < ConnectAttempts
    /\ LET a == ConnectAttempt(cur.s, attempt, nat)
           over == a.returns \/ attempt + 1 = ConnectAttempts
       IN  /\ CALL_FN' = a.call.call_fn
           /\ login' = IF a.login THEN [login EXCEPT ![cur.s] = TRUE] ELSE login
           /\ connects' = IF a.login THEN connects + 1 ELSE connects
           /\ pc' = IF over THEN "idle" ELSE pc
           /\ cur' = IF over THEN NoOp ELSE cur
           /\ attempt' = IF over THEN 0 ELSE attempt + 1
    /\ UNCHANGED <<arch, LIBRARY, alive, ops, recordVars, disconnects,
                   registryVars, loaderVars, lockVars>>

\* THS::disconnect
CountedDisconnect(s, nat) ==
    /\ pc = "idle"
    /\ alive[s]
    /\ disconnects < MaxNativeCalls
    /\ LET d == DisconnectBody(s, nat)
       IN  /\ login' = [login EXCEPT ![s] = d.login]
           /\ CALL_FN' = d.call_fn
           /\ disconnects' = disconnects + Len(d.calls)
    /\ UNCHANGED <<arch, LIBRARY, alive, ops, pc, cur, attempt, recordVars, connects,
                   registryVars, loaderVars, lockVars>>

\* impl Drop for THS
CountedDrop(s, nat) ==
    /\ pc = "idle"
    /\ alive[s]
    /\ disconnects < MaxNativeCalls
    /\ LET d == DropBody(s, nat)
       IN  /\ CALL_FN' = d.call_fn
           /\ disconnects' = disconnects + Len(d.calls)
    /\ alive' = [alive EXCEPT ![s] = FALSE]
    /\ login' = [login EXCEPT ![s] = FALSE]
    /\ ops' = [ops EXCEPT ![s] = NoOps]
    /\ UNCHANGED <<arch, LIBRARY, pc, cur, attempt, recordVars, connects,
                   registryVars, loaderVars, lockVars>>

LifecycleNext ==
    \/ \E s \in Sessions, o \in OptionInputs, load \in LoadOutcomes : CountedNew(s, o, load)
    \/ \E s, t \in Sessions : CountedClone(s, t)
    \/ \E s \in Sessions : CountedConnectBegin(s)
    \/ \E nat \in NativeOutcomes : CountedConnectStep(nat)
    \/ \E s \in Sessions, nat \in NativeOutcomes : CountedDisconnect(s, nat)
    \/ \E s \in Sessions, nat \in NativeOutcomes : CountedDrop(s, nat)

LifecycleInit == Init /\ arch = "x86_64"

LifecycleSpec == LifecycleInit /\ [][LifecycleNext]_vars

---------------------------------------------------------------------------
\* The registry under threads (callback.rs): every operation starts with
\* CALLBACKS.lock().unwrap() and keeps the guard until it returns, so
\* callback_handler keeps it while the closure runs.  A thread's calls in
\* progress form a stack: a closure that calls a registry operation puts a
\* second frame on the frame of the dispatch that runs it.

NoThread == 0

RegistryOps == {"register", "unregister", "dispatch"}

\* Mutex::lock returns once no thread holds the mutex; std's Mutex is not
\* re-entrant.
CanLock_Unguarded(holder, t) == TRUE

CanLock_Reentrant(holder, t) == holder \in {NoThread, t}

CanLock(holder, t) == holder = NoThread

Frame(op, index) == [op |-> op, pc |-> "lock", index |-> index, closure |-> 0]

Top(t) == frames[t][Len(frames[t])]

At(t, where) == frames[t] # <<>> /\ Top(t).pc = where

Pop(t) == [frames EXCEPT ![t] = SubSeq(@, 1, Len(@) - 1)]

\* The calls of register_callback that have not pushed yet.
Registering == {tf \in Threads \X (1..2) :
                   /\ tf[2] <= Len(frames[tf[1]])
                   /\ frames[tf[1]][tf[2]].op = "register"}

MayCall(op, index) ==
    /\ ~halted
    /\ op = "register" => index = 0 /\ Len(issued) + Cardinality(Registering) < MaxRegistrations

\* Thread t, in no registry operation, calls one.
Calls(t, op, index) ==
    /\ MayCall(op, index)
    /\ frames[t] = <<>>
    /\ frames' = [frames EXCEPT ![t] = <<Frame(op, index)>>]
    /\ UNCHANGED <<lock, removed, halted, registryVars, sessionVars, loaderVars, countVars>>

\* CALLBACKS.lock() returns the guard.
Lock(t) ==
    /\ ~halted
    /\ At(t, "lock")
    /\ CanLock(lock, t)
    /\ lock' = t
    /\ frames' = [frames EXCEPT ![t][Len(frames[t])].pc = "body"]
    /\ UNCHANGED <<removed, halted, registryVars, sessionVars, loaderVars, countVars>>

\* CALLBACKS.lock() on the thread that holds the mutex: it does not return;
\* it blocks for ever or panics.  Only a closure run by callback_handler gets
\* here, and a panic cannot unwind out of an extern "C" function: the
\* process aborts.
LockPanics(t) ==
    /\ ~halted
    /\ At(t, "lock")
    /\ lock = t
    /\ halted' = TRUE
    /\ UNCHANGED <<lock, frames, removed, registryVars, sessionVars, loaderVars, countVars>>

\* register_callback's body; the guard is dropped on return.
RegisterBody(t) ==
    /\ ~halted
    /\ At(t, "body")
    /\ Top(t).op = "register"
    /\ LET r == Push(CALLBACKS, Len(issued) + 1)
       IN  /\ CALLBACKS' = r.table
           /\ issued' = Append(issued, r.index)
    /\ frames' = Pop(t)
    /\ lock' = NoThread
    /\ UNCHANGED <<removed, halted, wrappers, undisturbed, direct, lastOp, prevOp, discipline,
                   sessionVars, loaderVars, countVars>>

\* unregister_callback's body; the guard is dropped on return.
UnregisterBody(t) ==
    /\ ~halted
    /\ At(t, "body")
    /\ Top(t).op = "unregister"
    /\ CALLBACKS' = Remove(CALLBACKS, Top(t).index)
    /\ removed' = IF Top(t).index + 1 = Len(CALLBACKS)
                  THEN removed \cup {CALLBACKS[Len(CALLBACKS)]}
                  ELSE removed
    /\ frames' = Pop(t)
    /\ lock' = NoThread
    /\ UNCHANGED <<halted, issued, wrappers, undisturbed, direct, lastOp, prevOp, discipline,
                   sessionVars, loaderVars, countVars>>

\* callback_handler's body up to the call of the closure, or to its return
\* when callbacks.get(index) is None.
HandlerBody(t) ==
    /\ ~halted
    /\ At(t, "body")
    /\ Top(t).op = "dispatch"
    /\ LET found == Get(CALLBACKS, Top(t).index)
       IN  IF found = <<>>
           THEN /\ frames' = Pop(t)
                /\ lock' = NoThread
           ELSE /\ frames' = [frames EXCEPT ![t][Len(frames[t])].pc = "closure",
                                            ![t][Len(frames[t])].closure = found[1]]
                /\ lock' = lock
    /\ UNCHANGED <<removed, halted, registryVars, sessionVars, loaderVars, countVars>>

\* The closure returns, then callback_handler does, dropping the guard.
ClosureReturns(t) ==
    /\ ~halted
    /\ At(t, "closure")
    /\ frames' = Pop(t)
    /\ lock' = NoThread
    /\ UNCHANGED <<removed, halted, registryVars, sessionVars, loaderVars, countVars>>

\* The closure panics inside the extern "C" function: the process aborts.
ClosurePanics(t) ==
    /\ ~halted
    /\ At(t, "closure")
    /\ halted' = TRUE
    /\ UNCHANGED <<lock, frames, removed, registryVars, sessionVars, loaderVars, countVars>>

\* The closure calls a registry operation (dropping a CallbackWrapper calls
\* unregister_callback), here with the index of its own dispatch when the
\* operation takes one.
ClosureCalls(t, op) ==
    /\ At(t, "closure")
    /\ LET index == IF op = "register" THEN 0 ELSE Top(t).index
       IN  /\ MayCall(op, index)
           /\ frames' = [frames EXCEPT ![t] = Append(@, Frame(op, index))]
    /\ UNCHANGED <<lock, removed, halted, registryVars, sessionVars, loaderVars, countVars>>

MutexNext ==
    \/ \E t \in Threads, op \in RegistryOps, index \in Indices : Calls(t, op, index)
    \/ \E t \in Threads : Lock(t)
    \/ \E t \in Threads : LockPanics(t)
    \/ \E t \in Threads : RegisterBody(t)
    \/ \E t \in Threads : UnregisterBody(t)
    \/ \E t \in Threads : HandlerBody(t)
    \/ \E t \in Threads : ClosureReturns(t)
    \/ \E t \in Threads : ClosurePanics(t)
    \/ \E t \in Threads, op \in RegistryOps : ClosureCalls(t, op)

MutexInit == Init /\ arch = "x86_64"

MutexSpec == MutexInit /\ [][MutexNext]_vars

---------------------------------------------------------------------------
\* Properties of cmd_query_data.

QueryMethod == <<"cmd.query_data.", args.service_key>>

\* C1: when cmd_query_data has returned after k retries that were all answers
\* of -1 from the native module (k < max_attempts) and a last call that
\* succeeded, it returned Ok with exactly the response that call decoded,
\* whether or not its err_info is empty; it made k+1 native calls, and the
\* buffer of the i-th of them (from 0) held initial_capacity * 2^i bytes.
C1_RetryThenSuccess ==
    (/\ cur.op = "cmd_query_data"
     /\ pc = "returned"
     /\ cur.loginBefore
     /\ retried \subseteq {BufferInsufficient}
     /\ lastRes.kind = "Ok")
    => /\ ret.kind = "Ok"
       /\ ret = lastRes
       /\ Len(calls) = Len(sleeps) + 1
       /\ Len(sleeps) < args.max_attempts
       /\ \A i \in 1..Len(calls) :
            /\ calls[i].method = QueryMethod
            /\ calls[i].buffer_len = args.buffer_size * 2^(i - 1)
            /\ calls[i].res = IF i < Len(calls) THEN "err" ELSE ResClass(ret)

C1_Witness ==
    /\ cur.op = "cmd_query_data"
    /\ pc = "returned"
    /\ retried = {BufferInsufficient}
    /\ ret.kind = "Ok"
    /\ ret.resp.err_info # ""
    /\ args.buffer_size = QueryBufferSize
    /\ Len(calls) = 3
    /\ calls[3].buffer_len = 8388608

\* C2: cmd_query_data never makes more than max_attempts native calls; when
\* every attempt reached the native module and was answered -1, it has made
\* exactly max_attempts native calls (none when max_attempts is 0) and
\* returns the ApiError of ths.rs:299.
C2_ExhaustsAfterMaxAttempts ==
    (cur.op = "cmd_query_data")
    => /\ Len(calls) <= args.max_attempts
       /\ (/\ pc = "returned"
           /\ cur.loginBefore
           /\ retried \subseteq {BufferInsufficient}
           /\ Len(calls) = Len(sleeps)
           /\ lastRes = NoRes \/ IsBufferInsufficient(lastRes))
          => /\ Len(calls) = args.max_attempts
             /\ ret.kind = "Err"
             /\ ret.err.variant = "ApiError"
             /\ ret.err.msg[1] = "<max attempts reached, request>: "

C2_Witness ==
    /\ cur.op = "cmd_query_data"
    /\ pc = "returned"
    /\ args.max_attempts = 3
    /\ Len(calls) = 3
    /\ retried = {BufferInsufficient}
    /\ ret.kind = "Err"
    /\ ret.err.msg[1] = "<max attempts reached, request>: "

\* C3: when cmd_query_data gives up after max_attempts, the buffer size in
\* the ApiError it returns is the capacity of the last native call it made.
C3_ReportsLastAttemptedSize ==
    (/\ cur.op = "cmd_query_data"
     /\ pc = "returned"
     /\ ret.kind = "Err"
     /\ ret.err.msg[1] = "<max attempts reached, request>: "
     /\ retried \subseteq {BufferInsufficient}
     /\ calls # <<>>)
    => ret.err.msg[Len(ret.err.msg)] = ToString(calls[Len(calls)].buffer_len)

\* C4: cmd_query_data retries nothing but an answer of -1 from the native
\* module: every call it went on to retry had returned -1.
C4_OnlyBufferInsufficientRetried ==
    (cur.op = "cmd_query_data") => retried \subseteq {BufferInsufficient}

\* C5: cmd_query_data on a session that is not logged in returns the ApiError
\* "not logged in" at once: no native call, no sleep, and login stays false.
C5_NotLoggedInNoCall ==
    (cur.op = "cmd_query_data" /\ ~cur.loginBefore)
    => /\ pc = "returned"
       /\ ret = NotLoggedIn
       /\ calls = <<>>
       /\ sleeps = <<>>
       /\ ~login[cur.s]

C5_Witness ==
    /\ cur.op = "cmd_query_data"
    /\ ~cur.loginBefore
    /\ pc = "returned"
    /\ args.max_attempts > 0
    /\ LIBRARY.hasCall

---------------------------------------------------------------------------
\* Properties of connect, disconnect and Drop.

Failed(entry) == entry.res \in {"err", "okerr"}

\* C6: connect never makes more than 5 native calls; when it returns an
\* error it has made exactly 5 native "connect" calls, each of which failed
\* (a call error, or a response with a non-empty err_info), it has slept 1,
\* 2, 4, 8 and 16 seconds, one sleep after each failed attempt, the error is
\* the ApiError of ths.rs:234, and login is what it was before; and 5 failed
\* attempts always end in that error.
C6_ConnectGivesUpAfterFive ==
    (cur.op = "connect")
    => /\ Len(calls) <= 5
       /\ (pc = "returned" /\ (ret.kind = "Err" \/ Len(sleeps) = 5))
          => /\ Len(calls) = 5
             /\ \A i \in 1..5 : calls[i].method = <<"connect">> /\ Failed(calls[i])
             /\ sleeps = <<1000, 2000, 4000, 8000, 16000>>
             /\ ret = ConnectFailure
             /\ login[cur.s] = cur.loginBefore

C6_Witness ==
    /\ cur.op = "connect"
    /\ pc = "returned"
    /\ ~cur.loginBefore
    /\ ~login[cur.s]
    /\ ret = ConnectFailure
    /\ Len(calls) = 5
    /\ calls[1].res = "err"
    /\ calls[2].res = "okerr"
    /\ Contains(ops[cur.s].username, NUL)

\* C7: when connect returns Ok, the session is logged in and the response
\* returned is the one its last call decoded, with an empty err_info; that
\* call is attempt j < 5, the j attempts before it failed, and the sleeps so
\* far are 2^0, ..., 2^(j-1) seconds.  No call or sleep follows a call that
\* succeeded with an empty err_info, and connect sets login only by
\* returning Ok.
C7_ConnectSucceedsOnFirstGoodAttempt ==
    (cur.op = "connect")
    => /\ (pc = "returned" /\ ret.kind = "Ok")
          => /\ login[cur.s]
             /\ ret = lastRes
             /\ ret.resp.err_info = ""
             /\ Len(calls) \in 1..5
             /\ calls[Len(calls)].res = "ok"
             /\ sleeps = [i \in 1..(Len(calls) - 1) |-> 1000 * 2^(i - 1)]
       /\ \A i \in 1..Len(calls) :
            /\ i < Len(calls) => Failed(calls[i])
            /\ calls[i].res = "ok" => pc = "returned" /\ ret.kind = "Ok"
       /\ (login[cur.s] /\ ~cur.loginBefore) => (pc = "returned" /\ ret.kind = "Ok")

C7_Witness ==
    /\ cur.op = "connect"
    /\ pc = "returned"
    /\ ~cur.loginBefore
    /\ login[cur.s]
    /\ ret.kind = "Ok"
    /\ ret.resp.result
    /\ Len(calls) = 3
    /\ sleeps = <<1000, 2000>>

\* C8: disconnect on a session that is not logged in makes no native call,
\* returns Ok and leaves login false; disconnect on a logged-in session makes
\* one native "disconnect" call; two disconnects in a row on a session that
\* was logged in make exactly one native call between them.
C8_DisconnectIdempotent ==
    (cur.op = "disconnect" /\ pc = "returned")
    => /\ ~cur.loginBefore => (calls = <<>> /\ ret = UnitRes /\ ~login[cur.s])
       /\ cur.loginBefore => (Len(calls) = 1 /\ calls[1].method = <<"disconnect">>)
       /\ (prev.valid /\ prev.s = cur.s /\ prev.loginBefore)
          => prev.ncalls + Len(calls) = 1

C8_Witness ==
    /\ cur.op = "disconnect"
    /\ pc = "returned"
    /\ prev.valid
    /\ prev.s = cur.s
    /\ prev.loginBefore
    /\ prev.ok
    /\ ret = UnitRes

\* C9: when disconnect on a logged-in session has returned, login is false
\* whether its native call succeeded or failed; it returns the error of a
\* failed call and Ok otherwise; and the disconnect that follows a failed one
\* makes no native call.
C9_DisconnectClearsLoginOnFailure ==
    (cur.op = "disconnect" /\ pc = "returned")
    => /\ cur.loginBefore
          => /\ ~login[cur.s]
             /\ lastRes.kind \in {"Ok", "Err"}
             /\ ret = IF lastRes.kind = "Err" THEN lastRes ELSE UnitRes
       /\ (prev.valid /\ prev.s = cur.s /\ prev.loginBefore /\ ~prev.ok)
          => (~cur.loginBefore /\ calls = <<>>)

C9_Witness ==
    /\ cur.op = "disconnect"
    /\ pc = "returned"
    /\ prev.valid
    /\ prev.s = cur.s
    /\ prev.loginBefore
    /\ ~prev.ok
    /\ prev.ncalls = 1
    /\ calls = <<>>

\* C10: dropping a logged-in session makes exactly one native "disconnect"
\* call and swallows its error; dropping a session that is not logged in
\* makes none; either way the object is gone.
C10_DropDisconnectsOnce ==
    (cur.op = "drop" /\ pc = "returned")
    => /\ ~alive[cur.s]
       /\ ret = UnitRes
       /\ cur.loginBefore => (Len(calls) = 1 /\ calls[1].method = <<"disconnect">>)
       /\ ~cur.loginBefore => calls = <<>>

C10_Witness ==
    /\ cur.op = "drop"
    /\ pc = "returned"
    /\ cur.loginBefore
    /\ Len(calls) = 1
    /\ lastRes.kind = "Err"
    /\ ret = UnitRes

---------------------------------------------------------------------------
\* Properties of THS::call.

\* The native module returns 0 and writes nothing: the buffer still starts
\* with the NUL it was allocated with.
EmptyOutcome == [code |-> 0, out |-> DocEmpty, segv |-> FALSE]

\* The Response with err_info "" and a payload whose result and dict_extra
\* are both absent.
EmptyEnvelope == OkRes([err_info |-> "", result |-> FALSE, dict_extra |-> FALSE])

\* C11: when the native call returns 0 and leaves the output empty, THS::call
\* returns Ok with the empty envelope (err_info "", payload empty), never an
\* error.  Stated on the call disconnect makes on a logged-in session.
C11_EmptyOutputIsEmptyEnvelope ==
    [][\A s \in Sessions :
          (Disconnect(s, EmptyOutcome) /\ login[s]) => lastRes' = EmptyEnvelope]_vars

\* What the claim C12 says one invocation of THS::call does with the outcome
\* nat of the native module: cs are the native invocations it made, res is
\* what it returned.
Classified(method, input, nat, cs, res) ==
    IF Contains(input, NUL)
    THEN cs = <<>> /\ res.kind = "Err" /\ res.err.variant = "ApiError"
    ELSE /\ Len(cs) = 1
         /\ CASE nat.code = 0 ->
                    \/ res.kind = "Ok"
                    \/ /\ res.kind = "Err"
                       /\ res.err.variant = "ApiError"
                       /\ res.err.msg[1] \in {"<JSON parse failed>: ",
                                              "<output decoding failed>: "}
              [] nat.code = BufferInsufficient ->
                    /\ res.kind = "Err"
                    /\ res.err.variant = "ApiError"
                    /\ res.err.msg[1] = BufferMarker
              [] OTHER ->
                    /\ res.kind = "Err"
                    /\ res.err.variant = "ApiError"
                    /\ Contains(res.err.msg, ToString(nat.code))
                    /\ res.err.msg[Len(res.err.msg) - Len(method) + 1] = method[1]

\* C12: every invocation of THS::call makes exactly one native invocation and
\* returns by the native code (0: the decoded output or a decode ApiError;
\* -1: the buffer-insufficient ApiError; any other: an ApiError with the code
\* and the method), except that a request with an embedded NUL makes no
\* native invocation and returns an ApiError.  Stated on the call of each
\* iteration of connect and of cmd_query_data.
C12_OneNativeCallPerCall ==
    [][\A nat \in NativeOutcomes :
          LET cs == SubSeq(calls', Len(calls) + 1, Len(calls'))
          IN  /\ ConnectStep(nat)
                 => Classified(<<"connect">>, OpsToJson(ops[cur.s]), nat, cs, lastRes')
              /\ CmdQueryDataStep(nat)
                 => Classified(QueryMethod, args.req, nat, cs, lastRes')]_vars

\* C13: on every native invocation the capacity argument equals the length
\* of the output buffer allocated for it.
C13_CapacityEqualsBufferLength ==
    \A i \in 1..Len(calls) : calls[i].capacity = calls[i].buffer_len

IsLibraryError(res) == res.kind = "Err" /\ res.err.variant = "LibraryError"

\* C18: a construction whose module file cannot be loaded returns a
\* LibraryError, and so does a connect whose call cannot resolve the symbol
\* Call in the loaded module; neither ends the thread abnormally.
C18_LibraryErrorReturned ==
    /\ (cur.op = "new" /\ pc = "returned" /\ arch # "aarch64" /\ ~alive[cur.s])
       => IsLibraryError(ret)
    /\ (/\ cur.op = "connect"
        /\ pc = "returned"
        /\ ~LIBRARY.hasCall
        /\ ~Contains(OpsToJson(ops[cur.s]), NUL))
       => IsLibraryError(ret)

---------------------------------------------------------------------------
\* Properties of the callback registry.  lastOp.table is the table as the
\* operation lastOp found it.

Unregistered(op) == op.op \in {"unregister", "wrapper_drop"}

\* C14: a dispatch on the handle that register_callback returned for closure
\* c, with no unregister since c was registered (whatever was registered or
\* unregistered before, whatever was registered after), invokes c exactly
\* once with the dispatch's payload, and no other closure.
C14_DispatchInvokesRegistered ==
    (lastOp.op = "dispatch")
    => \A c \in undisturbed :
          issued[c] = lastOp.index
          => lastOp.invoked = <<[closure |-> c, data |-> lastOp.data]>>

C14_Witness ==
    /\ lastOp.op = "dispatch"
    /\ lastOp.data = "p2"
    /\ 2 \in undisturbed
    /\ issued[2] = lastOp.index
    /\ lastOp.index = 0
    /\ Len(CALLBACKS) = 2
    /\ ~lastOp.aborted

\* C15: a dispatch on h right after unregister_callback(h) removed the entry
\* of the registered handle h invokes no closure at all.
C15_UnregisteredNeverInvoked ==
    (/\ lastOp.op = "dispatch"
     /\ Unregistered(prevOp)
     /\ prevOp.index = lastOp.index
     /\ prevOp.index < Len(prevOp.table))
    => lastOp.invoked = <<>>

\* C16: when wrappers are the only users of the registry, dropping a wrapper
\* removes exactly the closure that wrapper registered and leaves the closure
\* of every other live wrapper in the table; with no wrapper left, the table
\* holds none of their closures.
C16_WrapperDropRemovesOwnEntry ==
    (lastOp.op = "wrapper_drop" /\ ~direct)
    => /\ lastOp.closure \in Range(lastOp.table)
       /\ lastOp.closure \notin Range(CALLBACKS)
       /\ Len(CALLBACKS) = Len(lastOp.table) - 1
       /\ \A w \in wrappers : w.closure \in Range(CALLBACKS)

\* C19: unregister_callback(h) with h inside the table shortens the table by
\* one and leaves the entries below h alone; a dispatch that follows it on
\* g - 1, for a former handle g > h, invokes the closure that was at g, and a
\* dispatch on the former last handle invokes nothing.  With h at or beyond
\* the table's length the table stays as it was.
C19_UnregisterShiftsDown ==
    /\ Unregistered(lastOp)
       => IF lastOp.index < Len(lastOp.table)
          THEN /\ Len(CALLBACKS) = Len(lastOp.table) - 1
               /\ \A i \in 1..lastOp.index : CALLBACKS[i] = lastOp.table[i]
          ELSE CALLBACKS = lastOp.table
    /\ (/\ lastOp.op = "dispatch"
        /\ Unregistered(prevOp)
        /\ prevOp.index < Len(prevOp.table))
       => LET g == lastOp.index + 1
              last == Len(prevOp.table) - 1
          IN  /\ (g > prevOp.index /\ g <= last)
                 => lastOp.invoked = <<[closure |-> prevOp.table[g + 1],
                                        data |-> lastOp.data]>>
              /\ lastOp.index = last => lastOp.invoked = <<>>

C19_Witness ==
    /\ lastOp.op = "dispatch"
    /\ prevOp.op = "unregister"
    /\ prevOp.index = 0
    /\ Len(prevOp.table) = 3
    /\ lastOp.index = 1
    /\ lastOp.invoked = <<[closure |-> prevOp.table[3], data |-> "p1"]>>

\* C20: callback_handler leaves the table as it found it; with an index at
\* or beyond the table's length it invokes no closure and returns normally.
C20_OutOfRangeDispatchIsNoOp ==
    (lastOp.op = "dispatch")
    => /\ CALLBACKS = lastOp.table
       /\ lastOp.index >= Len(lastOp.table)
          => (lastOp.invoked = <<>> /\ ~lastOp.aborted)

C20_Witness ==
    /\ lastOp.op = "dispatch"
    /\ Len(CALLBACKS) = 2
    /\ lastOp.index = 3
    /\ lastOp.invoked = <<>>

\* C23: as long as every unregister_callback was given the handle issued
\* last among those still held (callbacks unregistered in reverse order of
\* registration, by hand or by wrappers dropped last-first), the table holds
\* exactly the closures whose handles are still held, each held handle
\* dispatches to the closure it was issued for, each unregister removed the
\* closure its handle was issued for and no other, and with no handle held
\* the table is empty.
C23_StackDisciplineKeepsHandles ==
    discipline.kept
    => LET stack == discipline.stack
       IN  /\ Len(CALLBACKS) = Len(stack)
           /\ \A i \in 1..Len(stack) :
                Get(CALLBACKS, stack[i].handle) = <<stack[i].closure>>
           /\ stack = <<>> => CALLBACKS = <<>>
           /\ Unregistered(lastOp)
              => /\ lastOp.table # <<>>
                 /\ issued[lastOp.table[Len(lastOp.table)]] = lastOp.index
                 /\ CALLBACKS = SubSeq(lastOp.table, 1, Len(lastOp.table) - 1)
           /\ lastOp.op = "dispatch"
              => \A i \in 1..Len(stack) :
                    stack[i].handle = lastOp.index
                    => lastOp.invoked = <<[closure |-> stack[i].closure,
                                           data |-> lastOp.data]>>

C23_Witness ==
    /\ discipline.kept
    /\ discipline.stack = <<>>
    /\ CALLBACKS = <<>>
    /\ Len(issued) = 3
    /\ lastOp.op = "wrapper_drop"
    /\ prevOp.op = "unregister"

\* C24: register_callback never returns a handle that is still held.  Stated
\* for the handles wrappers hold, when only their drops have called
\* unregister_callback: a wrapper that exists holds a handle that was issued
\* and not yet passed to unregister_callback, and no two of them hold the
\* same one.
C24_NoSharedLiveHandle ==
    ~direct => \A w1, w2 \in wrappers : w1.index = w2.index => w1 = w2

---------------------------------------------------------------------------
\* Properties of the module loader.

\* C17: under every interleaving of constructions and first calls, at most
\* one module is ever loaded; Library::new runs only while the cell has no
\* value; every session holds that one module, whatever version string it
\* was constructed with; and the symbol Call is resolved at most once, from
\* that module.
C17_AtMostOneModuleLoaded ==
    /\ Len(loads) <= 1
    /\ \A t \in Threads : tpc[t] = "loading" => (loads = <<>> /\ libraryCell.state = "running")
    /\ \A t \in Threads : HasSession(t) => (Len(loads) = 1 /\ tlib[t] = 1)
    /\ libraryCell.state = "full" <=> Len(loads) = 1
    /\ resolves <= 1
    /\ callFnCell.state = "full" <=> resolves = 1
    /\ callFnCell.state = "full" => callFnCell.value = 1

C17_Witness ==
    /\ Len(loads) = 1
    /\ resolves = 1
    /\ tpc[1] = "called"
    /\ tpc[2] = "called"
    /\ tver[1] # tver[2]
    /\ constructions = 3

---------------------------------------------------------------------------
\* Properties of the sessions' life.

\* C25: the native "disconnect" calls issued never outnumber the native
\* "connect" calls that succeeded with an empty err_info.
C25_DisconnectsNeverExceedConnects == disconnects <= connects

---------------------------------------------------------------------------
\* Properties of the registry under threads.

\* A closure invoked by callback_handler on thread t has not returned.
RunsClosure(t) == \E i \in 1..Len(frames[t]) : frames[t][i].pc = "closure"

\* Thread t is in the body of register_callback or unregister_callback.
InsideMutator(t) == At(t, "body") /\ Top(t).op \in {"register", "unregister"}

\* Thread t is past CALLBACKS.lock() in some operation.
InsideBody(t) == \E i \in 1..Len(frames[t]) : frames[t][i].pc \in {"body", "closure"}

\* C21: each operation holds the registry lock for its whole body, the
\* closure's run included: no closure runs while another thread is in the
\* body of register_callback or unregister_callback, no two threads run
\* closures at the same time, and a closure removed by an unregister_callback
\* of the last index that has returned is neither running nor in the table,
\* so it is never invoked again.
C21_OneThreadInsideRegistry ==
    /\ \A t \in Threads : InsideBody(t) => lock = t
    /\ \A t, u \in Threads : t # u /\ RunsClosure(t) => ~InsideMutator(u) /\ ~RunsClosure(u)
    /\ \A c \in removed :
          /\ c \notin Range(CALLBACKS)
          /\ \A t \in Threads : \A i \in 1..Len(frames[t]) :
                ~(frames[t][i].pc = "closure" /\ frames[t][i].closure = c)

\* A closure runs on one thread while another waits for the lock in
\* unregister_callback, after an unregister_callback of the last index.
C21_Witness ==
    \E t, u \in Threads :
        /\ t # u
        /\ RunsClosure(t)
        /\ At(u, "lock") /\ Top(u).op = "unregister"
        /\ removed # {}
        /\ ~halted

\* A closure on thread t has called a registry operation from inside a dispatch.
Reentered(t) == Len(frames[t]) >= 2

\* C22: once a closure has called register_callback or unregister_callback
\* from inside a dispatch, that call never gets the lock, the dispatch never
\* returns, and no operation of any thread gets the lock or returns: the
\* lock stays with the dispatching thread and the table stays as it is.
C22_ReentryBlocksEveryone ==
    [][(\E t \in Threads : Reentered(t))
       => /\ lock' = lock
          /\ CALLBACKS' = CALLBACKS
          /\ \A u \in Threads :
                /\ Len(frames'[u]) >= Len(frames[u])
                /\ At(u, "lock") => frames'[u] = frames[u]]_vars

\* The deadlock: one thread's closure waits for the lock its dispatch holds,
\* every other thread waits for the same lock.
C22_Witness ==
    /\ ~halted
    /\ \E t \in Threads :
          /\ Len(frames[t]) = 2
          /\ frames[t][1].op = "dispatch" /\ frames[t][1].pc = "closure"
          /\ Top(t).op \in {"register", "unregister"} /\ Top(t).pc = "lock"
          /\ lock = t
          /\ \A u \in Threads \ {t} : At(u, "lock")

====
